---------------------------- MODULE Spec2Model ----------------------------
(***************************************************************************)
(* A model of the batch file-mutation engine of                            *)
(* src/src/electron/module/handleFile.ts: the naming policy                *)
(* (nextOutputPath and its two siblings), the output directory resolver    *)
(* (ensureDir, resolveOutputDir), the three batch transforms               *)
(* (compressFiles, convertFiles, addWatermarks) and deleteFile.            *)
(*                                                                         *)
(* A file name is a sequence of characters, one string per character.      *)
(* The two Chinese characters of each operation tag are written in pinyin: *)
(* "ya","suo" (compress), "zhuan","huan" (convert), "shui","yin"           *)
(* (watermark).  A path is the sequence of its components, each a name;    *)
(* the root directory is the empty sequence.                               *)
(***************************************************************************)
EXTENDS Integers, Sequences, FiniteSets, TLC

\* ------------------------------------------------------------------ bounds

MaxItems == 2
MaxCalls == 2
MaxPaths == 2

\* ------------------------------------------------------- names and strings

Front(s) == SubSeq(s, 1, Len(s) - 1)

Last(s) == s[Len(s)]

EndsWith(s, t) ==
  /\ Len(t) <= Len(s)
  /\ SubSeq(s, Len(s) - Len(t) + 1, Len(s)) = t

DropLast(s, k) == SubSeq(s, 1, Len(s) - k)

Digits == <<"0", "1", "2", "3", "4", "5", "6", "7", "8", "9">>

IsDigit(c) == \E i \in 1..10 : Digits[i] = c

DigitVal(c) == (CHOOSE i \in 1..10 : Digits[i] = c) - 1

\* parseInt(s, 10) of a non-empty run of decimal digits
RECURSIVE parseInt(_)
parseInt(s) ==
  IF s = <<>> THEN 0 ELSE parseInt(Front(s)) * 10 + DigitVal(Last(s))

\* the decimal digits a template literal `${n}` prints for n >= 0
RECURSIVE NumToString(_)
NumToString(n) ==
  IF n < 10 THEN <<Digits[n + 1]>>
  ELSE NumToString(n \div 10) \o <<Digits[(n % 10) + 1]>>

\* String.prototype.toLowerCase on the letters the model's names use
LowerOf(c) ==
  CASE c = "J" -> "j"
    [] c = "P" -> "p"
    [] c = "G" -> "g"
    [] c = "C" -> "c"
    [] c = "O" -> "o"
    [] c = "N" -> "n"
    [] OTHER -> c

toLowerCase(s) == [i \in 1..Len(s) |-> LowerOf(s[i])]

\* the number of digits that end s
RECURSIVE TrailingDigits(_)
TrailingDigits(s) ==
  IF s = <<>> \/ ~IsDigit(Last(s)) THEN 0 ELSE 1 + TrailingDigits(Front(s))

\* path.extname of a file name: from the last "." to the end, and empty when
\* there is no ".", the last "." is the first character, or the name is ".."
LastDot(name) ==
  IF \E i \in 1..Len(name) : name[i] = "."
  THEN CHOOSE i \in 1..Len(name) :
         /\ name[i] = "."
         /\ \A j \in (i + 1)..Len(name) : name[j] # "."
  ELSE 0

extname(p) ==
  LET name == IF p = <<>> THEN <<>> ELSE Last(p)
      d == LastDot(name)
  IN IF d <= 1 \/ name = <<".", ".">> THEN <<>>
     ELSE SubSeq(name, d, Len(name))

\* path.basename(p, ext): the last component without the suffix ext
basename(p, ext) ==
  LET name == IF p = <<>> THEN <<>> ELSE Last(p)
  IN IF ext # <<>> /\ EndsWith(name, ext) /\ Len(name) > Len(ext)
     THEN DropLast(name, Len(ext))
     ELSE name

\* path.dirname of an absolute path
dirname(p) == IF p = <<>> THEN <<>> ELSE Front(p)

\* path.resolve(dir, name) of an absolute dir and one more component
resolve(dir, name) == Append(dir, name)

\* the tag each naming function writes into the name
TagCompress == <<"_", "ya", "suo">>

TagConvert == <<"_", "zhuan", "huan">>

TagWatermark == <<"_", "shui", "yin">>

\* base.match(/^(.*)_TAG(?:_(\d+))?$/): hit is whether the pattern matches,
\* root is group 1, hasNum whether group 2 took part, num its digits
MatchTag(base, tag) ==
  LET k == TrailingDigits(base)
      stem == DropLast(base, k)
  IN IF EndsWith(base, tag)
     THEN [hit |-> TRUE, root |-> DropLast(base, Len(tag)),
           hasNum |-> FALSE, num |-> <<>>]
     ELSE IF k > 0 /\ EndsWith(stem, tag \o <<"_">>)
     THEN [hit |-> TRUE, root |-> DropLast(stem, Len(tag) + 1),
           hasNum |-> TRUE, num |-> SubSeq(base, Len(base) - k + 1, Len(base))]
     ELSE [hit |-> FALSE, root |-> base, hasNum |-> FALSE, num |-> <<>>]

\* a variant that starts every input at the name without a number
FirstNAlwaysZero(m) == 0

\* the number the first candidate carries: 0 stands for no number
FirstN(m) == IF m.hit /\ m.hasNum THEN parseInt(m.num) + 1
             ELSE IF m.hit THEN 1 ELSE 0

\* a variant that prints the number of the first candidate too
CandidateBaseAlwaysNumbered(root, tag, n) ==
  root \o tag \o <<"_">> \o NumToString(n)

\* `${root}_TAG` for n = 0 and `${root}_TAG_${n}` otherwise
CandidateBase(root, tag, n) ==
  IF n = 0 THEN root \o tag ELSE root \o tag \o <<"_">> \o NumToString(n)

\* a variant that probes the same number again
BumpNStuck(n) == n

\* the number the probe loop moves to from n
BumpN(n) == IF n = 0 THEN 1 ELSE n + 1

\* ------------------------------------------------------------- file system

VARIABLES files, dirs

\* what fs.stat(p) answers: the kind of the entry, or the error code
StatKind(p, F, D) ==
  IF p = <<>> \/ p \in D THEN "dir"
  ELSE IF p \in F THEN "file"
  ELSE IF \E k \in 1..(Len(p) - 1) : SubSeq(p, 1, k) \in F THEN "ENOTDIR"
  ELSE "ENOENT"

StatOk(p, F, D) == StatKind(p, F, D) \in {"file", "dir"}

\* p and every ancestor of p
RECURSIVE Ancestors(_)
Ancestors(p) == IF p = <<>> THEN {} ELSE {p} \cup Ancestors(Front(p))

\* a variant that swallows every error
ensureDirSwallows(dir, F, D, deny) == [ok |-> TRUE, dirs |-> D]

\* ensureDir(dir): stat, and mkdir -p when the stat says ENOENT.  deny is the
\* environment refusing the mkdir (EACCES).  The EEXIST branch needs a
\* concurrent creator between the stat and the mkdir.
ensureDir(dir, F, D, deny) ==
  LET k == StatKind(dir, F, D)
  IN IF k = "dir" THEN [ok |-> TRUE, dirs |-> D]
     ELSE IF k # "ENOENT" THEN [ok |-> FALSE, dirs |-> D]
     ELSE IF deny THEN [ok |-> FALSE, dirs |-> D]
     ELSE [ok |-> TRUE, dirs |-> D \cup Ancestors(dir)]

\* resolveOutputDir(dir).  The argument is [blank, abs]: blank is
\* `!dir || !dir.trim()`, abs is path.resolve(dir.trim()).  The model's file
\* system has no symbolic links, so fs.realpath returns its argument.
resolveOutputDir(arg, F, D, deny) ==
  IF arg.blank THEN [ok |-> FALSE, dir |-> <<>>, dirs |-> D]
  ELSE
    LET abs == arg.abs
        k == StatKind(abs, F, D)
        parentDir == dirname(abs)
        viaDir == ensureDir(abs, F, D, deny)
        viaParent == ensureDir(parentDir, F, D, deny)
        first == IF StatOk(parentDir, F, D)
                 THEN ensureDir(abs, F, D, deny)
                 ELSE [ok |-> FALSE, dirs |-> D]
        again == ensureDir(abs, F, first.dirs, deny)
        created == IF first.ok THEN first ELSE again
    IN IF k = "dir" /\ viaDir.ok
       THEN [ok |-> TRUE, dir |-> abs, dirs |-> viaDir.dirs]
       ELSE IF k = "file" /\ viaParent.ok
       THEN [ok |-> TRUE, dir |-> parentDir, dirs |-> viaParent.dirs]
       ELSE [ok |-> created.ok, dir |-> abs, dirs |-> created.dirs]

\* ------------------------------------------------------------ naming policy

isSupportedFormat(ext) ==
  toLowerCase(ext) \in
    { <<".", "j", "p", "g">>, <<".", "j", "p", "e", "g">>,
      <<".", "p", "n", "g">>, <<".", "w", "e", "b", "p">>,
      <<".", "t", "i", "f">>, <<".", "t", "i", "f", "f">>,
      <<".", "a", "v", "i", "f">> }

\* the target formats convertFiles accepts, and the extension of each
TargetFormats == {"jpg", "png", "bmp"}

TargetExt(fmt) ==
  IF fmt = "jpg" THEN <<".", "j", "p", "g">>
  ELSE IF fmt = "png" THEN <<".", "p", "n", "g">>
  ELSE <<".", "b", "m", "p">>

\* a variant in which every naming function writes the compress tag
NamingTagAlwaysCompress(o) == TagCompress

\* the tag of nextOutputPath, nextConvertedOutputPath, nextWatermarkOutputPath
NamingTag(o) ==
  CASE o = "compress" -> TagCompress
    [] o = "convert" -> TagConvert
    [] o = "watermark" -> TagWatermark

\* the extension the candidate carries: the input's, or the target's
NamingExt(o, item) ==
  IF o = "convert" THEN TargetExt(item.fmt) ELSE extname(item.path)

\* the match of the input's base name against the operation's tag
NamingMatch(o, item) ==
  CHOOSE m \in { MatchTag(base, NamingTag(o)) :
                   base \in {basename(item.path, extname(item.path))} } : TRUE

\* the candidate path number n of an item in outputDir
CandidatePath(o, outputDir, item, n) ==
  resolve(outputDir,
          CandidateBase(NamingMatch(o, item).root, NamingTag(o), n)
            \o NamingExt(o, item))

\* a variant that finds every candidate free
ProbeNeverTaken(p, F, D) == FALSE

\* a variant that takes only a file for an existing entry
ProbeFilesOnly(p, F, D) == p \in F

\* the probe of a candidate: fs.stat succeeded, so the name is taken
ProbeTaken(p, F, D) == StatOk(p, F, D)

\* ------------------------------------------------------- the batch call

VARIABLES
  op,         \* which batch function was called
  items,      \* its list: FileItem records [path, type, fmt]
  outputDir,  \* its outputDir argument, [blank, abs]
  text,       \* addWatermarks' text, a sequence of characters
  callPc,     \* "entry", "resolving", "running", "returned", "rejected"
  targetDir,  \* what resolveOutputDir returned
  jobs,       \* the per-item promises, in the order of the list
  order,      \* the indices of the settled jobs, in the order they settled
  ret,        \* the value the call returned
  calls,      \* how many times the call was made
  hist,       \* the value each earlier call returned
  events,     \* what this call did so far: "resolve", "stat", "probe", ...
  denied,     \* the environment refused this call's mkdir
  files0,     \* the files when this call was made
  dirs0,      \* the directories when this call was made
  fsInit      \* the entries when the first call was made

batchVars == <<op, items, outputDir, text, callPc, targetDir, jobs, order,
               ret, calls, hist, events, denied, files0, dirs0, fsInit>>

\* deleteFile's call
VARIABLES
  delPaths,  \* deleteFile's list (strings, so path.resolve does not throw)
  delPc,     \* "idle", "entry", "running", "returned"
  delJobs,   \* the per-path promises: [pc, ok, steps]
  delRet,    \* the boolean the call returned
  delFs0     \* the entries when the call was made

delVars == <<delPaths, delPc, delJobs, delRet, delFs0>>

\* the rename made through RenameModal
VARIABLES
  renFile,    \* the FileItem of the modal: [path, type]
  renName,    \* the text of the form's name field, a sequence of characters
  renPc,      \* "idle", "form", "entry", "stat", "access", "rename", "done"
  renOut,     \* how the rename ended: [kind, value, error]
  renTarget,  \* renameFile's targetPath
  renEvents,  \* the fs calls renameFile made so far
  renFs0,     \* the files and the directories but for renameFile's own rename
  renRace     \* what another actor did meanwhile, and whether fs.rename
              \* replaced an entry: [other, replaced]

renVars == <<renFile, renName, renPc, renOut, renTarget, renEvents, renFs0,
             renRace>>

\* two calls of resolveOutputDir with the same argument
VARIABLES
  rdArg,   \* the argument, [blank, abs]
  rdProcs  \* the two calls: where each one is and what it did

rdVars == <<rdArg, rdProcs>>

\* the submission of the crop form
VARIABLES
  cropFiles,   \* selectedFiles
  cropValues,  \* the values of the form
  cropPc,      \* "idle", "form", "finish", "calling", "done"
  cropOut,     \* how the submission ended
  cropEvents   \* the capabilities onFinish invoked

cropVars == <<cropFiles, cropValues, cropPc, cropOut, cropEvents>>

\* calls of one naming function, each followed by the write of its output
VARIABLES
  nmOp,    \* which naming function: "compress", "convert", "watermark"
  nmProcs  \* the calls: input, number, candidate, position

nmVars == <<nmOp, nmProcs>>

otherVars == <<cropVars, nmVars>>

allVars == <<files, dirs, batchVars, delVars, renVars, rdVars, otherVars>>

\* the deleteFile variables while deleteFile is not called
DeleteIdle ==
  /\ delPaths = <<>>
  /\ delPc = "idle"
  /\ delJobs = <<>>
  /\ delRet = FALSE
  /\ delFs0 = {}

\* the outcome of a rename that has not ended
NoOutcome == [kind |-> "none", value |-> FALSE, error |-> ""]

\* the rename variables while no rename is made
\* no other actor has touched the directory, fs.rename has replaced nothing
NoRace == [other |-> {}, replaced |-> FALSE]

RenameIdle ==
  /\ renFile = [path |-> <<>>, type |-> "folder"]
  /\ renName = <<>>
  /\ renPc = "idle"
  /\ renOut = NoOutcome
  /\ renTarget = <<>>
  /\ renEvents = {}
  /\ renFs0 = <<{}, {}>>
  /\ renRace = NoRace

\* the resolveOutputDir variables while the two calls are not modelled
ResolveIdle ==
  /\ rdArg = [blank |-> TRUE, abs |-> <<>>]
  /\ rdProcs = <<>>

\* the crop variables while the crop form is not open
CropIdle ==
  /\ cropFiles = <<>>
  /\ cropValues = [isUseCurrentDir |-> TRUE, outputDir |-> <<>>, left |-> 0,
                   top |-> 0, width |-> 0, height |-> 0]
  /\ cropPc = "idle"
  /\ cropOut = "none"
  /\ cropEvents = {}

\* the naming variables while no naming call is modelled
NamingIdle ==
  /\ nmOp = "compress"
  /\ nmProcs = <<>>

OtherIdle == CropIdle /\ NamingIdle

\* the directories and names the model's file system holds
DirP == << <<"p">> >>

DirQ == << <<"q">> >>

DirO == << <<"o">> >>

DirNew == << <<"n">>, <<"s">> >>

ExtJpg == <<".", "j", "p", "g">>

ExtGif == <<".", "g", "i", "f">>

NameA == <<"a">> \o ExtJpg

FileA == resolve(DirP, NameA)

\* the list a call may be given: the same base name in two directories, a
\* name that carries the operation's tag, a folder, an image the codecs of
\* compressFiles do not take, and a file that is gone
ItemsOf(o) ==
  { [path |-> FileA, type |-> "image", fmt |-> "png"],
    [path |-> resolve(DirQ, NameA), type |-> "image", fmt |-> "jpg"],
    [path |-> resolve(DirP, <<"a">> \o NamingTag(o) \o ExtJpg),
     type |-> "image", fmt |-> "bmp"],
    [path |-> DirQ, type |-> "folder", fmt |-> "bmp"],
    [path |-> resolve(DirP, <<"c">> \o ExtGif), type |-> "image",
     fmt |-> "gif"],
    [path |-> resolve(DirP, <<"m">> \o ExtJpg), type |-> "image",
     fmt |-> "bmp"] }

\* the file of the list that is gone when the call is made
MissingFile == resolve(DirP, <<"m">> \o ExtJpg)

InitialFiles(o) ==
  { i.path : i \in { j \in ItemsOf(o) :
                       j.type = "image" /\ j.path # MissingFile } }

InitialDirs == {DirP, DirQ, DirO}

\* entries the output directory /o may hold before the first call: the first
\* candidate of "a" as a file, its second candidate as a folder
PreExisting(o) ==
  LET e == IF o = "convert" THEN TargetExt("png") ELSE ExtJpg
  IN [f |-> resolve(DirO, CandidateBase(<<"a">>, NamingTag(o), 0) \o e),
      d |-> resolve(DirO, CandidateBase(<<"a">>, NamingTag(o), 1) \o e)]

\* the outputDir a call may be given: a directory that exists, a nested one
\* that does not, a file (its parent /p, which holds inputs, is used) and the
\* blank string
OutputDirArgs ==
  { [blank |-> FALSE, abs |-> DirO], [blank |-> FALSE, abs |-> DirNew],
    [blank |-> FALSE, abs |-> FileA], [blank |-> TRUE, abs |-> <<>>] }

\* String.prototype.trim
RECURSIVE TrimStart(_)
TrimStart(s) == IF s # <<>> /\ Head(s) = " " THEN TrimStart(Tail(s)) ELSE s

RECURSIVE TrimEnd(_)
TrimEnd(s) == IF s # <<>> /\ Last(s) = " " THEN TrimEnd(Front(s)) ELSE s

trim(s) == TrimEnd(TrimStart(s))

\* the longest watermark text addWatermarks takes
MaxTextLen == 10

Xs(n) == [i \in 1..n |-> "x"]

Texts == { <<" ">>, <<" ">> \o Xs(MaxTextLen) \o <<" ">>, Xs(MaxTextLen + 1) }

ItemListsOf(o) == UNION { [1..n -> ItemsOf(o)] : n \in 0..MaxItems }

\* ---------------------------------------------------------------- results

NoResult ==
  [inputPath |-> <<>>, outputPath |-> <<>>, success |-> FALSE,
   error |-> "pending"]

\* a variant that leaves a path in the outputPath of a failure
FailureEchoesInput(inputPath, msg) ==
  [inputPath |-> inputPath, outputPath |-> inputPath, success |-> FALSE,
   error |-> msg]

\* an item result of a failure: outputPath is the empty string
Failure(inputPath, msg) ==
  [inputPath |-> inputPath, outputPath |-> <<>>, success |-> FALSE,
   error |-> msg]

Success(inputPath, outputPath) ==
  [inputPath |-> inputPath, outputPath |-> outputPath, success |-> TRUE,
   error |-> ""]

\* a job that returned a result, and a job's catch block: it returns the
\* failure as the item's result
Returned(j, r) == [j EXCEPT !.pc = "done", !.settled = "fulfilled", !.value = r]

\* a variant whose catch block throws again
CaughtRethrows(j, inputPath, msg) ==
  [j EXCEPT !.pc = "done", !.settled = "rejected"]

Caught(j, inputPath, msg) == Returned(j, Failure(inputPath, msg))

\* a variant: results.some((r) => r.success)
SomeSuccess(results) == \E i \in 1..Len(results) : results[i].success

\* results.every((r) => r.success)
AllSuccess(results) == \A i \in 1..Len(results) : results[i].success

\* a variant that collects the values as the jobs settle
PromiseAllInSettlingOrder(js, ord) == [k \in 1..Len(ord) |-> js[ord[k]].value]

\* Promise.all: rejected once a job is rejected, and otherwise, once every job
\* is fulfilled, the jobs' values in the order of the list
PromiseAll(js, ord) == [i \in 1..Len(js) |-> js[i].value]

\* ----------------------------------------------------------------- actions


NoRet == [rejected |-> FALSE, success |-> FALSE, results |-> <<>>]

Rejection == [rejected |-> TRUE, success |-> FALSE, results |-> <<>>]

NewJob == [pc |-> "stat", n |-> 0, out |-> <<>>, fresh |-> TRUE,
           settled |-> "pending", value |-> NoResult]

\* a variant without the test of the empty list
NeverEmpty(list) == FALSE

\* `!filePaths || filePaths.length === 0`
IsEmptyList(list) == Len(list) = 0

\* the job of one item up to its first await: convertFiles and addWatermarks
\* return for an entry that is no image before they stat it
StartJob(o, item) ==
  IF o \in {"convert", "watermark"} /\ item.type # "image"
  THEN Returned(NewJob, Failure(item.path, "not an image"))
  ELSE NewJob

SettledAtStart(js) ==
  LET S == { i \in 1..Len(js) : js[i].settled # "pending" }
      RECURSIVE Asc(_, _)
      Asc(i, acc) == IF i > Len(js) THEN acc
                     ELSE Asc(i + 1, IF i \in S THEN Append(acc, i) ELSE acc)
  IN Asc(1, <<>>)

Init ==
  /\ op \in {"compress", "convert", "watermark"}
  /\ items \in ItemListsOf(op)
  /\ outputDir \in OutputDirArgs
  /\ text \in (IF op = "watermark" THEN Texts ELSE {<<>>})
  /\ \E pre \in (IF outputDir.abs = DirO THEN SUBSET {"f", "d"} ELSE {{}}) :
       /\ files = InitialFiles(op)
                    \cup (IF "f" \in pre THEN {PreExisting(op).f} ELSE {})
       /\ dirs = InitialDirs
                   \cup (IF "d" \in pre THEN {PreExisting(op).d} ELSE {})
  /\ callPc = "entry"
  /\ targetDir = <<>>
  /\ jobs = <<>>
  /\ order = <<>>
  /\ ret = NoRet
  /\ calls = 1
  /\ hist = <<>>
  /\ events = {}
  /\ denied = FALSE
  /\ files0 = files
  /\ dirs0 = dirs
  /\ fsInit = files \cup dirs
  /\ DeleteIdle
  /\ RenameIdle
  /\ ResolveIdle
  /\ OtherIdle

\* a variant without the limit on the text
TextNeverTooLong(content) == FALSE

\* `content.length > 10`
TextTooLong(content) == Len(content) > MaxTextLen

\* the synchronous head of compressFiles, convertFiles and addWatermarks: the
\* empty list, and for addWatermarks the text
Enter ==
  /\ callPc = "entry"
  /\ LET content == trim(text)
         early(msg) ==
           [rejected |-> FALSE, success |-> FALSE,
            results |-> [i \in 1..Len(items) |-> Failure(items[i].path, msg)]]
         r == IF IsEmptyList(items)
              THEN [rejected |-> FALSE, success |-> TRUE, results |-> <<>>]
              ELSE IF op = "watermark" /\ content = <<>>
              THEN early("watermark text empty")
              ELSE IF op = "watermark" /\ TextTooLong(content)
              THEN early("watermark text too long")
              ELSE NoRet
     IN IF r = NoRet
        THEN /\ callPc' = "resolving"
             /\ UNCHANGED <<ret, hist>>
        ELSE /\ callPc' = "returned"
             /\ ret' = r
             /\ hist' = Append(hist, r)
  /\ UNCHANGED <<files, dirs, op, items, outputDir, text, targetDir, jobs,
                 order, calls, events, denied, files0, dirs0, fsInit>>
  /\ UNCHANGED <<delVars, renVars, rdVars, otherVars>>

\* `await resolveOutputDir(outputDir)` and, when it returns, the start of
\* every item's job; when it throws the call is rejected
Resolve ==
  /\ callPc = "resolving"
  /\ \E deny \in (IF ~outputDir.blank
                     /\ StatKind(outputDir.abs, files, dirs) = "ENOENT"
                  THEN BOOLEAN ELSE {FALSE}) :
       LET r == resolveOutputDir(outputDir, files, dirs, deny)
           js == [i \in 1..Len(items) |-> StartJob(op, items[i])]
       IN /\ denied' = deny
          /\ dirs' = r.dirs
          /\ events' = events \cup {"resolve"}
          /\ IF r.ok
             THEN /\ callPc' = "running"
                  /\ targetDir' = r.dir
                  /\ jobs' = js
                  /\ order' = SettledAtStart(js)
                  /\ UNCHANGED <<ret, hist>>
             ELSE /\ callPc' = "rejected"
                  /\ ret' = Rejection
                  /\ hist' = Append(hist, Rejection)
                  /\ UNCHANGED <<targetDir, jobs, order>>
  /\ UNCHANGED <<files, op, items, outputDir, text, calls, files0, dirs0,
                 fsInit, delVars,
                 renVars, rdVars, otherVars>>

\* job i moves to j; it is appended to the settling order when it settles
Move(i, j, ev) ==
  /\ jobs' = [jobs EXCEPT ![i] = j]
  /\ order' = IF j.settled # "pending" THEN Append(order, i) ELSE order
  /\ events' = events \cup {ev}
  /\ UNCHANGED <<op, items, outputDir, text, callPc, targetDir, ret, calls,
                 hist, denied, files0, dirs0, fsInit, delVars,
                 renVars, rdVars, otherVars>>

Running(i, pc) ==
  /\ callPc = "running"
  /\ i \in 1..Len(jobs)
  /\ jobs[i].pc = pc

\* `await fs.stat(inputPath)` and the checks that follow it
JobStat(i) ==
  /\ Running(i, "stat")
  /\ LET it == items[i]
         j == jobs[i]
         k == StatKind(it.path, files, dirs)
         toProbe == [j EXCEPT !.pc = "probe",
                                !.n = FirstN(NamingMatch(op, it))]
     IN Move(i,
             IF k \notin {"file", "dir"} THEN Caught(j, it.path, k)
             ELSE IF k # "file"
             THEN Returned(j, Failure(it.path, "not a file"))
             ELSE IF op = "compress" /\ ~isSupportedFormat(extname(it.path))
             THEN Returned(j, Failure(it.path, "unsupported format"))
             ELSE IF op = "convert" /\ it.fmt \notin TargetFormats
             THEN Returned(j, Failure(it.path, "unsupported target format"))
             ELSE IF op = "watermark" THEN [j EXCEPT !.pc = "meta"]
             ELSE toProbe,
             "stat")
  /\ UNCHANGED <<files, dirs>>

\* addWatermarks: `await sharp(inputPath).metadata()`, which may throw or give
\* no size
JobMeta(i) ==
  /\ Running(i, "meta")
  /\ \E ok \in BOOLEAN :
       Move(i,
            IF ok
            THEN [jobs[i] EXCEPT !.pc = "probe",
                                 !.n = FirstN(NamingMatch(op, items[i]))]
            ELSE Caught(jobs[i], items[i].path, "no size"),
            "meta")
  /\ UNCHANGED <<files, dirs>>

\* one turn of the probe loop of nextOutputPath and its siblings:
\* `await fs.stat(candidate)`
JobProbe(i) ==
  /\ Running(i, "probe")
  /\ LET j == jobs[i]
         c == CandidatePath(op, targetDir, items[i], j.n)
     IN Move(i,
             IF ProbeTaken(c, files, dirs)
             THEN [j EXCEPT !.n = BumpN(j.n)]
             ELSE [j EXCEPT !.pc = "ensure", !.out = c,
                            !.fresh = c \notin (files \cup dirs)],
             "probe")
  /\ UNCHANGED <<files, dirs>>

\* `await ensureDir(outputParentDir)` and the stat that verifies it
JobEnsure(i) ==
  /\ Running(i, "ensure")
  /\ LET j == jobs[i]
         parent == dirname(j.out)
         r == ensureDir(parent, files, dirs, FALSE)
     IN /\ dirs' = r.dirs
        /\ Move(i,
                IF r.ok /\ StatKind(parent, files, r.dirs) = "dir"
                THEN [j EXCEPT !.pc = "write"]
                ELSE Caught(j, items[i].path, "no output directory"),
                "ensure")
  /\ UNCHANGED files

\* the codec call that writes outputPath: it writes the file or throws
JobWrite(i) ==
  /\ Running(i, "write")
  /\ \E ok \in BOOLEAN :
       LET j == jobs[i]
       IN /\ files' = IF ok THEN files \cup {j.out} ELSE files
          /\ Move(i,
                  IF ok THEN Returned(j, Success(items[i].path, j.out))
                  ELSE Caught(j, items[i].path, "codec"),
                  "codec")
  /\ UNCHANGED dirs

\* `await Promise.all(jobs)` and the return of the call
Settle ==
  /\ callPc = "running"
  /\ \/ \E i \in 1..Len(jobs) : jobs[i].settled = "rejected"
     \/ \A i \in 1..Len(jobs) : jobs[i].settled = "fulfilled"
  /\ LET results == PromiseAll(jobs, order)
         r == IF \E i \in 1..Len(jobs) : jobs[i].settled = "rejected"
              THEN Rejection
              ELSE [rejected |-> FALSE, success |-> AllSuccess(results),
                    results |-> results]
     IN /\ ret' = r
        /\ callPc' = IF r.rejected THEN "rejected" ELSE "returned"
        /\ hist' = Append(hist, r)
  /\ UNCHANGED <<files, dirs, op, items, outputDir, text, targetDir, jobs,
                 order, calls, events, denied, files0, dirs0, fsInit, delVars,
                 renVars, rdVars, otherVars>>

\* the same call is made again once the previous one has completed.  The
\* calls in sequence are those of one input: a list of one item makes one
\* call of the naming function, written before the next call begins.
Repeat ==
  /\ callPc \in {"returned", "rejected"}
  /\ calls < MaxCalls
  /\ Len(items) <= 1
  /\ calls' = calls + 1
  /\ callPc' = "entry"
  /\ targetDir' = <<>>
  /\ jobs' = <<>>
  /\ order' = <<>>
  /\ ret' = NoRet
  /\ events' = {}
  /\ denied' = FALSE
  /\ files0' = files
  /\ dirs0' = dirs
  /\ UNCHANGED <<files, dirs, op, items, outputDir, text, hist, fsInit,
                 delVars, renVars, rdVars, otherVars>>

Next ==
  \/ Enter
  \/ Resolve
  \/ \E i \in 1..MaxItems : JobStat(i)
  \/ \E i \in 1..MaxItems : JobMeta(i)
  \/ \E i \in 1..MaxItems : JobProbe(i)
  \/ \E i \in 1..MaxItems : JobEnsure(i)
  \/ \E i \in 1..MaxItems : JobWrite(i)
  \/ Settle
  \/ Repeat

Spec == Init /\ [][Next]_allVars

\* --------------------------------------------------------------- deleteFile

DeletePaths == {FileA, DirP, resolve(DirQ, NameA), MissingFile}

DeleteLists == UNION { [1..n -> DeletePaths] : n \in 0..MaxPaths }

\* p is dir or lies below it
Below(p, dir) == Len(p) >= Len(dir) /\ SubSeq(p, 1, Len(dir)) = dir

\* the batch variables while no batch call is made
BatchIdle ==
  /\ op = "compress"
  /\ items = <<>>
  /\ outputDir = [blank |-> TRUE, abs |-> <<>>]
  /\ text = <<>>
  /\ callPc = "idle"
  /\ targetDir = <<>>
  /\ jobs = <<>>
  /\ order = <<>>
  /\ ret = NoRet
  /\ calls = 0
  /\ hist = <<>>
  /\ events = {}
  /\ denied = FALSE
  /\ files0 = {}
  /\ dirs0 = {}
  /\ fsInit = {}

InitDelete ==
  /\ files = InitialFiles("compress")
  /\ dirs = InitialDirs
  /\ BatchIdle
  /\ delPaths \in DeleteLists
  /\ delPc = "entry"
  /\ delJobs = <<>>
  /\ delRet = FALSE
  /\ delFs0 = files \cup dirs
  /\ RenameIdle
  /\ ResolveIdle
  /\ OtherIdle

\* a variant: results.some((result) => result === true)
DelSomeTrue(js) == \E i \in 1..Len(js) : js[i].ok

\* results.every((result) => result === true)
DelAllTrue(js) == \A i \in 1..Len(js) : js[i].ok

\* a variant that answers false to the empty list
DelEmptyResultFalse == FALSE

\* `return true` for the empty list
DelEmptyResult == TRUE

\* the empty list returns true; otherwise every path's job starts with its stat
DelEnter ==
  /\ delPc = "entry"
  /\ IF Len(delPaths) = 0
     THEN /\ delPc' = "returned"
          /\ delRet' = DelEmptyResult
          /\ UNCHANGED delJobs
     ELSE /\ delPc' = "running"
          /\ delJobs' = [i \in 1..Len(delPaths) |->
                           [pc |-> "stat", ok |-> FALSE, steps |-> <<>>]]
          /\ UNCHANGED delRet
  /\ UNCHANGED <<files, dirs, batchVars, renVars, rdVars, otherVars, delPaths, delFs0>>

DelAt(i, pc) ==
  /\ delPc = "running"
  /\ i \in 1..Len(delJobs)
  /\ delJobs[i].pc = pc

DelMove(i, pc, ok, step) ==
  /\ delJobs' = [delJobs EXCEPT ![i] =
                   [pc |-> pc, ok |-> ok, steps |-> Append(@.steps, step)]]
  /\ UNCHANGED <<batchVars, renVars, rdVars, otherVars, delPaths, delPc, delRet, delFs0>>

\* `await fs.stat(normalizedPath)`: a path that is gone gives false
DelStat(i) ==
  /\ DelAt(i, "stat")
  /\ LET k == StatKind(delPaths[i], files, dirs)
     IN DelMove(i,
                IF k = "dir" THEN "rm" ELSE IF k = "file" THEN "unlink"
                ELSE "done",
                FALSE, "stat")
  /\ UNCHANGED <<files, dirs>>

\* `await fs.rm(normalizedPath, {recursive: true, force: true})`: with force a
\* path that is gone is no error; otherwise the tree goes, or rm throws
DelRm(i) ==
  /\ DelAt(i, "rm")
  /\ \E ok \in BOOLEAN :
       /\ files' = IF ok THEN { f \in files : ~Below(f, delPaths[i]) }
                   ELSE files
       /\ dirs' = IF ok THEN { d \in dirs : ~Below(d, delPaths[i]) }
                  ELSE dirs
       /\ DelMove(i, "done", ok, "rm")

\* a variant that takes every error of unlink for a permission error
AnyErrorIsPermission(code) == code # "ok"

\* `unlinkErrorCode === "EACCES" || unlinkErrorCode === "EPERM"`
IsPermissionError(code) == code \in {"EACCES", "EPERM"}

\* the name under which a job records its first unlink
UnlinkStep(code) ==
  CASE code = "ok" -> "unlink"
    [] code = "EACCES" -> "unlink EACCES"
    [] code = "EPERM" -> "unlink EPERM"
    [] code = "EBUSY" -> "unlink EBUSY"
    [] OTHER -> "unlink ENOENT"

\* the first `await fs.unlink(normalizedPath)`: the file goes, or unlink
\* throws ENOENT (the file is gone), a permission error or another error
DelUnlink(i) ==
  /\ DelAt(i, "unlink")
  /\ \E code \in (IF delPaths[i] \in files
                  THEN {"ok", "EACCES", "EPERM", "EBUSY"}
                  ELSE {"ENOENT"}) :
       /\ files' = IF code = "ok" THEN files \ {delPaths[i]} ELSE files
       /\ DelMove(i,
                  IF code # "ok" /\ IsPermissionError(code)
                  THEN "chmodParent" ELSE "done",
                  code = "ok", UnlinkStep(code))
  /\ UNCHANGED dirs

\* the remediation ladder: each step may fail, which is logged and no more
DelChmodParent(i) ==
  /\ DelAt(i, "chmodParent")
  /\ \E ok \in BOOLEAN :
       DelMove(i, "chmodFile", FALSE, IF ok THEN "chmodParent" ELSE "chmodParent failed")
  /\ UNCHANGED <<files, dirs>>

DelChmodFile(i) ==
  /\ DelAt(i, "chmodFile")
  /\ \E ok \in BOOLEAN :
       DelMove(i, "xattr", FALSE, IF ok THEN "chmodFile" ELSE "chmodFile failed")
  /\ UNCHANGED <<files, dirs>>

DelXattr(i) ==
  /\ DelAt(i, "xattr")
  /\ \E ok \in BOOLEAN :
       DelMove(i, "retry", FALSE, IF ok THEN "xattr" ELSE "xattr failed")
  /\ UNCHANGED <<files, dirs>>

\* the one retry of unlink: its outcome is the path's result
DelRetry(i) ==
  /\ DelAt(i, "retry")
  /\ \E code \in (IF delPaths[i] \in files THEN {"ok", "EACCES"}
                  ELSE {"ENOENT"}) :
       /\ files' = IF code = "ok" THEN files \ {delPaths[i]} ELSE files
       /\ DelMove(i, "done", code = "ok",
                  IF code = "ok" THEN "retry" ELSE "retry failed")
  /\ UNCHANGED dirs

\* a variant that returns false at the first path that failed, while the
\* other paths' jobs have not run to their end
DelSettleOnFirstFailure ==
  /\ delPc = "running"
  /\ \/ \A i \in 1..Len(delJobs) : delJobs[i].pc = "done"
     \/ \E i \in 1..Len(delJobs) : delJobs[i].pc = "done" /\ ~delJobs[i].ok
  /\ delPc' = "returned"
  /\ delRet' = DelAllTrue(delJobs)
  /\ UNCHANGED <<files, dirs, batchVars, renVars, rdVars, otherVars, delPaths, delJobs,
                 delFs0>>

\* `await Promise.all(...)` and the return of allSuccess
DelSettle ==
  /\ delPc = "running"
  /\ \A i \in 1..Len(delJobs) : delJobs[i].pc = "done"
  /\ delPc' = "returned"
  /\ delRet' = DelAllTrue(delJobs)
  /\ UNCHANGED <<files, dirs, batchVars, renVars, rdVars, otherVars, delPaths, delJobs,
               delFs0>>

NextDelete ==
  \/ DelEnter
  \/ \E i \in 1..MaxPaths : DelStat(i)
  \/ \E i \in 1..MaxPaths : DelRm(i)
  \/ \E i \in 1..MaxPaths : DelUnlink(i)
  \/ \E i \in 1..MaxPaths : DelChmodParent(i)
  \/ \E i \in 1..MaxPaths : DelChmodFile(i)
  \/ \E i \in 1..MaxPaths : DelXattr(i)
  \/ \E i \in 1..MaxPaths : DelRetry(i)
  \/ DelSettle

SpecDelete == InitDelete /\ [][NextDelete]_allVars

\* --------------------------------------------------------------- renameFile

\* the entries the modal may be opened on: an image, a folder that holds a
\* file, and an image that is gone when the form is submitted
\* a folder whose name holds a dot
DirDot == << <<"d", ".", "x">> >>

RenameItems ==
  { [path |-> FileA, type |-> "image"],
    [path |-> DirQ, type |-> "folder"],
    [path |-> DirDot, type |-> "folder"],
    [path |-> MissingFile, type |-> "image"] }

\* the texts the name field may hold
NewNames ==
  { <<"a">>, <<"q">>, <<"b">>, <<" ", "b", " ">>, <<"p">>,
    <<"a", "_", "ya", "suo">>, <<"b", ".", "p", "n", "g">>,
    <<".">>, <<".", ".">>, <<"b", ".">>, <<".", ".", "/", "z">>,
    <<"a", "\\", "b">>, <<"C", "O", "N">>, <<>>, <<" ">> }

Contains(s, c) == \E i \in 1..Len(s) : s[i] = c

\* the rule `required: true` of the form item: the empty string fails, a
\* string of blanks passes
RequiredRule(value) == value # <<>>

\* the characters of validateName's class [<>:"/\|?*]
SpecialChars == {"<", ">", ":", "\"", "/", "\\", "|", "?", "*"}

\* the names of /^(con|prn|aux|nul|com[1-9]|lpt[1-9])$/
ReservedNames ==
  { <<"c", "o", "n">>, <<"p", "r", "n">>, <<"a", "u", "x">>,
    <<"n", "u", "l">> }
    \cup { <<"c", "o", "m", Digits[k]>> : k \in 2..Len(Digits) }
    \cup { <<"l", "p", "t", Digits[k]>> : k \in 2..Len(Digits) }

\* a variant of the validator that passes every name
validateNamePassesAll(file, value) == TRUE

\* RenameModal.validateName: TRUE when the promise resolves
validateName(file, value) ==
  LET name == trim(value)
  IN /\ name # <<".">>
     /\ name # <<".", ".">>
     /\ ~\E i \in 1..Len(name) : name[i] \in SpecialChars
     /\ ~(name # <<>> /\ Last(name) \in {" ", "."})
     /\ toLowerCase(name) \notin ReservedNames
     /\ ~(file.type = "image" /\ Contains(name, "."))

\* `sanitized.includes("/") || sanitized.includes("\\")`
HasSeparator(sanitized) == Contains(sanitized, "/") \/ Contains(sanitized, "\\")

\* a variant that reports a failure as the value false
ThrowsAsFalse(msg) == [kind |-> "resolved", value |-> FALSE, error |-> ""]

\* `throw new Error(msg)`: the promise of renameFile is rejected
Throws(msg) == [kind |-> "rejected", value |-> FALSE, error |-> msg]

\* `return true`
Resolves(v) == [kind |-> "resolved", value |-> v, error |-> ""]

\* the form did not call renameFile
Invalid == [kind |-> "invalid", value |-> FALSE, error |-> "form"]

\* a variant that puts the old extension back on folders too
TargetBaseAnyKind(stats, filePath, sanitized) ==
  LET oldExt == extname(filePath)
      newExt == extname(<<sanitized>>)
  IN IF newExt = <<>> /\ oldExt # <<>>
     THEN sanitized \o oldExt
     ELSE sanitized

\* base: the new name, with the old extension when the source is a file and
\* the new name has none
TargetBase(stats, filePath, sanitized) ==
  LET oldExt == extname(filePath)
      newExt == extname(<<sanitized>>)
  IN IF stats = "file" /\ newExt = <<>> /\ oldExt # <<>>
     THEN sanitized \o oldExt
     ELSE sanitized

\* a variant that joins the name to the parent of dir
joinAtParent(dir, base) == Append(dirname(dir), base)

\* path.join(dir, base) of a base without separator: "." and ".." are
\* normalised away
join(dir, base) ==
  IF base = <<".">> THEN dir
  ELSE IF base = <<".", ".">> THEN dirname(dir)
  ELSE Append(dir, base)

\* a variant that never takes the target for the source
NeverSamePath(targetPath, filePath) == FALSE

\* `targetPath === filePath`
SamePath(targetPath, filePath) == targetPath = filePath

\* a variant of the probe that never finds the target
AccessNever(p, F, D) == FALSE

\* `await fs.access(targetPath)` did not throw
Accessible(p, F, D) == StatOk(p, F, D)

\* where fs.rename(src, dst) puts the entry e: src and what lies below it go
\* to dst, the rest stays
RenameEntry(e, src, dst) ==
  IF Below(e, src) THEN dst \o SubSeq(e, Len(src) + 1, Len(e)) ELSE e

InitRename ==
  /\ files = InitialFiles("compress")
  /\ dirs = InitialDirs \cup {DirDot}
  /\ BatchIdle
  /\ DeleteIdle
  /\ ResolveIdle
  /\ OtherIdle
  /\ renFile \in RenameItems
  /\ renName \in NewNames
  /\ renPc = "form"
  /\ renOut = NoOutcome
  /\ renTarget = <<>>
  /\ renEvents = {}
  /\ renFs0 = <<files, dirs>>
  /\ renRace = NoRace

RenEnd(out) ==
  /\ renPc' = "done"
  /\ renOut' = out

\* form.submit(): onFinish, and with it renameFile, runs when the rules of the
\* name field pass
RenSubmit ==
  /\ renPc = "form"
  /\ IF RequiredRule(renName) /\ validateName(renFile, renName)
     THEN renPc' = "entry" /\ UNCHANGED renOut
     ELSE RenEnd(Invalid)
  /\ UNCHANGED <<files, dirs, batchVars, delVars, rdVars, otherVars, renFile, renName,
                 renTarget, renEvents, renFs0,
                 renRace>>

\* the synchronous head of renameFile
RenEnter ==
  /\ renPc = "entry"
  /\ IF renName = <<>> \/ trim(renName) = <<>>
     THEN RenEnd(Throws("invalid"))
     ELSE IF HasSeparator(trim(renName))
     THEN RenEnd(Throws("separator"))
     ELSE renPc' = "stat" /\ UNCHANGED renOut
  /\ UNCHANGED <<files, dirs, batchVars, delVars, rdVars, otherVars, renFile, renName,
                 renTarget, renEvents, renFs0,
                 renRace>>

\* `await fs.stat(filePath)`, the target path and its comparison with the
\* source
RenStat ==
  /\ renPc = "stat"
  /\ renEvents' = renEvents \cup {"stat"}
  /\ LET filePath == renFile.path
         stats == StatKind(filePath, files, dirs)
         targetPath == join(dirname(filePath),
                            TargetBase(stats, filePath, trim(renName)))
     IN IF stats \notin {"file", "dir"}
        THEN RenEnd(Throws("source")) /\ UNCHANGED renTarget
        ELSE /\ renTarget' = targetPath
             /\ IF SamePath(targetPath, filePath)
                THEN RenEnd(Resolves(TRUE))
                ELSE renPc' = "access" /\ UNCHANGED renOut
  /\ UNCHANGED <<files, dirs, batchVars, delVars, rdVars, otherVars, renFile, renName,
                 renFs0,
                 renRace>>

\* `await fs.access(targetPath)`: a target that is there is an error
RenAccess ==
  /\ renPc = "access"
  /\ renEvents' = renEvents \cup {"access"}
  /\ IF Accessible(renTarget, files, dirs)
     THEN RenEnd(Throws("exists"))
     ELSE renPc' = "rename" /\ UNCHANGED renOut
  /\ UNCHANGED <<files, dirs, batchVars, delVars, rdVars, otherVars, renFile, renName,
                 renTarget, renFs0,
                 renRace>>

\* `await fs.rename(filePath, targetPath)`: the entry moves, or rename throws
\* fs.rename replaces a file by a file and an empty directory by a
\* directory; onto any other entry it throws. It may throw in any case.
RenRename ==
  /\ renPc = "rename"
  /\ renEvents' = renEvents \cup {"rename"}
  /\ LET src == renFile.path
         there == StatOk(renTarget, files, dirs)
         canReplace ==
           \/ ~there
           \/ src \in files /\ renTarget \in files
           \/ /\ src \in dirs
              /\ renTarget \in dirs
              /\ \A e \in files \cup dirs :
                   Below(e, renTarget) => e = renTarget
     IN \E ok \in (IF canReplace THEN BOOLEAN ELSE {FALSE}) :
          IF ok
          THEN /\ files' = { RenameEntry(f, src, renTarget) :
                               f \in files \ {renTarget} }
               /\ dirs' = { RenameEntry(d, src, renTarget) :
                              d \in dirs \ {renTarget} }
               /\ renRace' = [renRace EXCEPT !.replaced = there]
               /\ RenEnd(Resolves(TRUE))
          ELSE /\ UNCHANGED <<files, dirs, renRace>>
               /\ RenEnd(Throws("rename failed"))
  /\ UNCHANGED <<batchVars, delVars, rdVars, otherVars, renFile, renName, renTarget,
                 renFs0>>

\* another actor (a file manager, a second window) replaces the folder the
\* modal shows by a file of the same name before renameFile stats it
RenOtherReplacesSource ==
  /\ renPc \in {"form", "entry", "stat"}
  /\ renRace.other = {}
  /\ renFile.type = "folder"
  /\ renFile.path \in dirs
  /\ files' = { f \in files : ~Below(f, renFile.path) } \cup {renFile.path}
  /\ dirs' = { d \in dirs : ~Below(d, renFile.path) }
  /\ renFs0' = <<files', dirs'>>
  /\ renRace' = [renRace EXCEPT !.other = {"source"}]
  /\ UNCHANGED <<batchVars, delVars, rdVars, otherVars, renFile, renName, renPc,
                 renOut, renTarget, renEvents>>

\* another actor (a second renameFile call, the write of a batch, a mkdir)
\* puts an entry at targetPath after fs.access found none and before
\* fs.rename runs
RenOtherCreatesTarget ==
  /\ renPc = "rename"
  /\ "target" \notin renRace.other
  /\ ~StatOk(renTarget, files, dirs)
  /\ \E kind \in {"file", "dir"} :
       /\ files' = IF kind = "file" THEN files \cup {renTarget} ELSE files
       /\ dirs' = IF kind = "dir" THEN dirs \cup {renTarget} ELSE dirs
  /\ renFs0' = <<files', dirs'>>
  /\ renRace' = [renRace EXCEPT !.other = @ \cup {"target"}]
  /\ UNCHANGED <<batchVars, delVars, rdVars, otherVars, renFile, renName, renPc,
                 renOut, renTarget, renEvents>>

NextRename ==
  \/ RenSubmit
  \/ RenEnter
  \/ RenStat
  \/ RenAccess
  \/ RenRename
  \/ RenOtherReplacesSource
  \/ RenOtherCreatesTarget

SpecRename == InitRename /\ [][NextRename]_allVars

\* --------------------------------------- resolveOutputDir, await by await

\* how many calls of resolveOutputDir run side by side
MaxResolveCalls == 2

\* a variant whose mkdir throws when another call has made the directory
mkdirStepExclusive(dir, F, D) ==
  LET missing == { a \in Ancestors(dir) : a \notin D }
      top == CHOOSE a \in missing : \A b \in missing : Len(a) <= Len(b)
  IN IF dir \in F THEN [code |-> "EEXIST", dirs |-> D]
     ELSE IF \E a \in Ancestors(dir) : a \in F
     THEN [code |-> "ENOTDIR", dirs |-> D]
     ELSE IF missing = {} THEN [code |-> "EACCES", dirs |-> D]
     ELSE [code |-> IF top = dir THEN "done" ELSE "made",
           dirs |-> D \cup {top}]

\* one step of fs.mkdir(dir, {recursive: true}): it throws when dir or an
\* ancestor is a file, it is done when dir is a directory already, and
\* otherwise it creates the highest ancestor that is missing, which ends it
\* when that is dir itself
mkdirStep(dir, F, D) ==
  LET missing == { a \in Ancestors(dir) : a \notin D }
      top == CHOOSE a \in missing : \A b \in missing : Len(a) <= Len(b)
  IN IF dir \in F THEN [code |-> "EEXIST", dirs |-> D]
     ELSE IF \E a \in Ancestors(dir) : a \in F
     THEN [code |-> "ENOTDIR", dirs |-> D]
     ELSE IF missing = {} THEN [code |-> "done", dirs |-> D]
     ELSE [code |-> IF top = dir THEN "done" ELSE "made",
           dirs |-> D \cup {top}]

\* a variant that calls ensureDir on the argument in every branch
EnsureTargetSelf(ctx, abs) == abs

\* the directory ensureDir is called on: the parent when the argument is a
\* file (B), the argument when it is a directory (A), when its parent is there
\* (C) and in the last attempt (D)
EnsureTarget(ctx, abs) == IF ctx = "B" THEN dirname(abs) ELSE abs

\* a variant that returns the parent of a directory it had to create
ReturnedDirParentWhenCreated(ctx, abs) ==
  IF ctx = "A" THEN abs ELSE dirname(abs)

\* what resolveOutputDir returns: fs.realpath of the directory ensureDir was
\* called on (no symbolic links: the path itself)
ReturnedDir(ctx, abs) == EnsureTarget(ctx, abs)

IdleCall ==
  [pc |-> "idle", ctx |-> "", ok |-> FALSE, ret |-> <<>>, denied |-> FALSE,
   steps |-> <<>>, fs0 |-> <<{}, {}>>, after |-> {}]

InitResolve ==
  /\ files = InitialFiles("compress")
  /\ \E pre \in BOOLEAN :
       dirs = InitialDirs \cup (IF pre THEN {dirname(DirNew)} ELSE {})
  /\ BatchIdle
  /\ DeleteIdle
  /\ RenameIdle
  /\ OtherIdle
  /\ rdArg \in OutputDirArgs
  /\ rdProcs = [p \in 1..MaxResolveCalls |-> IdleCall]

RdAt(p, pc) == p \in DOMAIN rdProcs /\ rdProcs[p].pc = pc

\* the call p moves to pc, in the branch ctx, after the step named step
RdGo(p, pc, ctx, step) ==
  rdProcs' = [rdProcs EXCEPT ![p] =
                [@ EXCEPT !.pc = pc, !.ctx = ctx,
                          !.steps = Append(@, step)]]

\* an exception of ensureDir: the catch of line 392 takes it in the branches A
\* and B, the catch of line 406 in the branch C, and in D the call is rejected
RdThrow(p, step, deny) ==
  LET c == rdProcs[p].ctx
      was == rdProcs[p].denied
  IN rdProcs' = [rdProcs EXCEPT ![p] =
       [@ EXCEPT !.pc = IF c \in {"A", "B"} THEN "statParent"
                        ELSE IF c = "C" THEN "eStat" ELSE "done",
                 !.ctx = IF c = "C" THEN "D" ELSE c,
                 !.denied = was \/ deny,
                 !.steps = Append(@, step)]]

\* the call is made: the blank argument throws at once
RdCall(p) ==
  /\ RdAt(p, "idle")
  /\ rdProcs' = [rdProcs EXCEPT ![p] =
       [@ EXCEPT !.pc = IF rdArg.blank THEN "done" ELSE "stat",
                 !.fs0 = <<files, dirs>>,
                 !.after = { q \in DOMAIN rdProcs :
                               rdProcs[q].pc = "done" /\ rdProcs[q].ok },
                 !.steps = <<"call">>]]
  /\ UNCHANGED <<files, dirs, batchVars, delVars, renVars, otherVars, rdArg>>

\* `await fs.stat(abs)`
RdStat(p) ==
  /\ RdAt(p, "stat")
  /\ LET k == StatKind(rdArg.abs, files, dirs)
     IN IF k = "dir" THEN RdGo(p, "eStat", "A", "stat")
        ELSE IF k = "file" THEN RdGo(p, "eStat", "B", "stat")
        ELSE RdGo(p, "statParent", "", "stat")
  /\ UNCHANGED <<files, dirs, batchVars, delVars, renVars, otherVars, rdArg>>

\* `await fs.stat(parentDir)` in the catch of line 392
RdStatParent(p) ==
  /\ RdAt(p, "statParent")
  /\ IF StatOk(dirname(rdArg.abs), files, dirs)
     THEN RdGo(p, "eStat", "C", "statParent")
     ELSE RdGo(p, "eStat", "D", "statParent")
  /\ UNCHANGED <<files, dirs, batchVars, delVars, renVars, otherVars, rdArg>>

\* ensureDir's `await fs.stat(dir)`
RdEnsureStat(p) ==
  /\ RdAt(p, "eStat")
  /\ LET k == StatKind(EnsureTarget(rdProcs[p].ctx, rdArg.abs), files, dirs)
     IN IF k = "dir" THEN RdGo(p, "realpath", rdProcs[p].ctx, "eStat")
        ELSE IF k = "ENOENT" THEN RdGo(p, "eMkdir", rdProcs[p].ctx, "eStat")
        ELSE RdThrow(p, "eStat", FALSE)
  /\ UNCHANGED <<files, dirs, batchVars, delVars, renVars, otherVars, rdArg>>

\* ensureDir's `await fs.mkdir(dir, {recursive: true})`, one directory at a
\* time; the environment may refuse it; EEXIST on a directory is no error
RdMkdir(p) ==
  /\ RdAt(p, "eMkdir")
  /\ LET dir == EnsureTarget(rdProcs[p].ctx, rdArg.abs)
         m == mkdirStep(dir, files, dirs)
     IN \E deny \in BOOLEAN :
          IF deny /\ m.dirs # dirs
          THEN RdThrow(p, "mkdir", TRUE) /\ UNCHANGED dirs
          ELSE /\ dirs' = m.dirs
               /\ IF m.code = "made"
                  THEN RdGo(p, "eMkdir", rdProcs[p].ctx, "mkdir")
                  ELSE IF m.code = "done"
                  THEN RdGo(p, "eVerify", rdProcs[p].ctx, "mkdir")
                  ELSE IF m.code = "EEXIST"
                          /\ StatKind(dir, files, dirs) = "dir"
                  THEN RdGo(p, "realpath", rdProcs[p].ctx, "mkdir")
                  ELSE RdThrow(p, "mkdir", FALSE)
  /\ UNCHANGED <<files, batchVars, delVars, renVars, otherVars, rdArg>>

\* ensureDir's `await fs.stat(dir)` after the mkdir
RdVerify(p) ==
  /\ RdAt(p, "eVerify")
  /\ IF StatKind(EnsureTarget(rdProcs[p].ctx, rdArg.abs), files, dirs) = "dir"
     THEN RdGo(p, "realpath", rdProcs[p].ctx, "verify")
     ELSE RdThrow(p, "verify", FALSE)
  /\ UNCHANGED <<files, dirs, batchVars, delVars, renVars, otherVars, rdArg>>

\* `await fs.realpath(...)` and the return
RdReturn(p) ==
  /\ RdAt(p, "realpath")
  /\ rdProcs' = [rdProcs EXCEPT ![p] =
       [@ EXCEPT !.pc = "done", !.ok = TRUE,
                 !.ret = ReturnedDir(rdProcs[p].ctx, rdArg.abs),
                 !.steps = Append(@, "realpath")]]
  /\ UNCHANGED <<files, dirs, batchVars, delVars, renVars, otherVars, rdArg>>

NextResolve ==
  \/ \E p \in 1..MaxResolveCalls : RdCall(p)
  \/ \E p \in 1..MaxResolveCalls : RdStat(p)
  \/ \E p \in 1..MaxResolveCalls : RdStatParent(p)
  \/ \E p \in 1..MaxResolveCalls : RdEnsureStat(p)
  \/ \E p \in 1..MaxResolveCalls : RdMkdir(p)
  \/ \E p \in 1..MaxResolveCalls : RdVerify(p)
  \/ \E p \in 1..MaxResolveCalls : RdReturn(p)

SpecResolve == InitResolve /\ [][NextResolve]_allVars

\* ---------------------------------------------------------------- CropModal

\* the values the drag on the preview may leave in width and height
CropSides == {-1, 0, 1, 2}

CropLists ==
  UNION { [1..n -> { [path |-> FileA, type |-> "image"],
                     [path |-> resolve(DirQ, NameA), type |-> "image"] }] :
          n \in 0..MaxItems }

InitCrop ==
  /\ files = InitialFiles("compress")
  /\ dirs = InitialDirs
  /\ BatchIdle
  /\ DeleteIdle
  /\ RenameIdle
  /\ ResolveIdle
  /\ NamingIdle
  /\ cropFiles \in CropLists
  /\ cropValues \in [isUseCurrentDir : BOOLEAN, outputDir : {<<>>, DirO},
                     left : {0, 1}, top : {0}, width : CropSides,
                     height : CropSides]
  /\ cropPc = "form"
  /\ cropOut = "none"
  /\ cropEvents = {}

\* a variant without the test of the rectangle
BadRectNever(values) == FALSE

\* `values.width <= 0 || values.height <= 0`
BadRect(values) == values.width <= 0 \/ values.height <= 0

\* `selectedFiles.length !== 1`
NotOneFile(selected) == Len(selected) # 1

\* form.submit(): the outputDir item, with its `required` rule, is in the
\* form when "current directory" is not ticked
CropSubmit ==
  /\ cropPc = "form"
  /\ IF ~cropValues.isUseCurrentDir /\ cropValues.outputDir = <<>>
     THEN cropPc' = "done" /\ cropOut' = "rule"
     ELSE cropPc' = "finish" /\ UNCHANGED cropOut
  /\ UNCHANGED <<files, dirs, batchVars, delVars, renVars, rdVars, nmVars,
                 cropFiles, cropValues, cropEvents>>

\* onFinish up to the call of cropImage
CropFinish ==
  /\ cropPc = "finish"
  /\ cropValues' = IF cropValues.isUseCurrentDir
                   THEN [cropValues EXCEPT !.outputDir = DirP]
                   ELSE cropValues
  /\ IF NotOneFile(cropFiles)
     THEN cropPc' = "done" /\ cropOut' = "warning: one image"
             /\ UNCHANGED cropEvents
     ELSE IF BadRect(cropValues)
     THEN cropPc' = "done" /\ cropOut' = "warning: width and height"
             /\ UNCHANGED cropEvents
     ELSE /\ cropPc' = "calling"
          /\ cropEvents' = cropEvents \cup {"cropImage"}
          /\ UNCHANGED cropOut
  /\ UNCHANGED <<files, dirs, batchVars, delVars, renVars, rdVars, nmVars,
                 cropFiles>>

\* `await window.electronAPI.cropImage(...)`: it resolves with success or
\* without, or it is rejected
CropReturn ==
  /\ cropPc = "calling"
  /\ cropPc' = "done"
  /\ cropOut' \in {"success", "error", "rejected"}
  /\ UNCHANGED <<files, dirs, batchVars, delVars, renVars, rdVars, nmVars,
                 cropFiles, cropValues, cropEvents>>

NextCrop ==
  \/ CropSubmit
  \/ CropFinish
  \/ CropReturn

SpecCrop == InitCrop /\ [][NextCrop]_allVars

\* ------------------------------------- the naming functions, probe by probe

\* how many calls of the naming function run side by side
MaxBatches == 2

\* how many calls run where the end of the probe loop is checked: one call
\* has no concurrent creator of names
MaxFairCalls == 1

\* the inputs of the naming function: a base without the tag, with the tag,
\* with the tag and a number, and with a number whose successor has two digits
NamingItems(o) ==
  { [path |-> resolve(DirP, b \o ExtJpg), type |-> "image", fmt |-> "png"] :
      b \in { <<"a">>,
              <<"a">> \o NamingTag(o),
              <<"a">> \o NamingTag(o) \o <<"_", "1">>,
              <<"a">> \o NamingTag(o) \o <<"_", "9">> } }

\* the entries /o may hold before the calls: the candidates 0 and 2 of "a" as
\* files, the candidate 1 as a folder
NamingEntries(o) ==
  LET e == NamingExt(o, [path |-> FileA, type |-> "image", fmt |-> "png"])
      c(k) == resolve(DirO, CandidateBase(<<"a">>, NamingTag(o), k) \o e)
  IN [f |-> {c(0), c(2)}, d |-> {c(1)}]

\* the entries of dir that carry the tag of o on the root of item, numbered or
\* not, with the extension of item's candidates
Siblings(o, dir, item, F, D) ==
  { e \in F \cup D :
      /\ e # <<>>
      /\ dirname(e) = dir
      /\ extname(e) = NamingExt(o, item)
      /\ \E base \in {basename(e, extname(e))} :
           \E m \in {MatchTag(base, NamingTag(o))} :
             m.hit /\ m.root = NamingMatch(o, item).root }

InitNamingOf(count) ==
  /\ nmOp \in {"compress", "convert", "watermark"}
  /\ \E F \in SUBSET NamingEntries(nmOp).f, D \in SUBSET NamingEntries(nmOp).d :
       /\ files = { i.path : i \in NamingItems(nmOp) } \cup F
       /\ dirs = InitialDirs \cup D
  /\ nmProcs \in [1..count ->
                    { [item |-> i, pc |-> "call", n |-> 0, first |-> <<>>,
                       probes |-> 0, out |-> <<>>, sib |-> 0,
                       raced |-> FALSE, clobber |-> FALSE] :
                      i \in NamingItems(nmOp) }]
  /\ BatchIdle
  /\ DeleteIdle
  /\ RenameIdle
  /\ ResolveIdle
  /\ CropIdle

InitNaming == InitNamingOf(MaxBatches)

InitNamingFair == InitNamingOf(MaxFairCalls)

NmAt(p, pc) == p \in DOMAIN nmProcs /\ nmProcs[p].pc = pc

\* the head of the naming function: the match, the first number and the
\* first candidate
NmCall(p) ==
  /\ NmAt(p, "call")
  /\ \E it \in {nmProcs[p].item} :
       \E n0 \in {FirstN(NamingMatch(nmOp, it))} :
         \E first \in {CandidatePath(nmOp, DirO, it, n0)} :
           \E sib \in {Cardinality(Siblings(nmOp, DirO, it, files, dirs))} :
             nmProcs' = [nmProcs EXCEPT ![p] =
               [@ EXCEPT !.pc = "probe", !.n = n0, !.first = first,
                         !.sib = sib]]
  /\ UNCHANGED <<files, dirs, batchVars, delVars, renVars, rdVars, cropVars,
                 nmOp>>

\* a variant whose probe creates the free candidate it returns, in one step
NmProbeReserving(p) ==
  /\ NmAt(p, "probe")
  /\ LET candidate == CandidatePath(nmOp, DirO, nmProcs[p].item, nmProcs[p].n)
     IN IF ProbeTaken(candidate, files, dirs)
        THEN /\ nmProcs' = [nmProcs EXCEPT ![p] =
                  [@ EXCEPT !.n = BumpN(@), !.probes = @ + 1]]
             /\ UNCHANGED files
        ELSE /\ nmProcs' = [nmProcs EXCEPT ![p] =
                  [@ EXCEPT !.pc = "write", !.out = candidate,
                            !.probes = @ + 1]]
             /\ files' = files \cup {candidate}
  /\ UNCHANGED <<dirs, batchVars, delVars, renVars, rdVars, cropVars, nmOp>>

\* one turn of the loop: `await fs.stat(candidate)`; a candidate that is
\* there moves the number on, one that is not is returned
NmProbe(p) ==
  /\ NmAt(p, "probe")
  /\ \E candidate \in
         {CandidatePath(nmOp, DirO, nmProcs[p].item, nmProcs[p].n)} :
       \E taken \in {ProbeTaken(candidate, files, dirs)} :
         nmProcs' = [nmProcs EXCEPT ![p] =
           IF taken
           THEN [@ EXCEPT !.n = BumpN(@), !.probes = @ + 1]
           ELSE [@ EXCEPT !.pc = "write", !.out = candidate,
                          !.probes = @ + 1]]
  /\ UNCHANGED <<files, dirs, batchVars, delVars, renVars, rdVars, cropVars,
                 nmOp>>

\* the codec writes the output path; the calls still in their loop have a
\* concurrent creator from then on
NmWrite(p) ==
  /\ NmAt(p, "write")
  /\ files' = files \cup {nmProcs[p].out}
  /\ \E clobber \in {nmProcs[p].out \in files} :
       nmProcs' = [q \in DOMAIN nmProcs |->
         IF q = p
         THEN [nmProcs[q] EXCEPT !.pc = "done", !.clobber = clobber]
         ELSE IF nmProcs[q].pc \in {"call", "probe"}
         THEN [nmProcs[q] EXCEPT !.raced = TRUE]
         ELSE nmProcs[q]]
  /\ UNCHANGED <<dirs, batchVars, delVars, renVars, rdVars, cropVars, nmOp>>

NmStep(p) == NmCall(p) \/ NmProbe(p) \/ NmWrite(p)

NextNaming ==
  \/ \E p \in 1..MaxBatches : NmCall(p)
  \/ \E p \in 1..MaxBatches : NmProbe(p)
  \/ \E p \in 1..MaxBatches : NmWrite(p)

SpecNaming == InitNaming /\ [][NextNaming]_allVars

\* every pending fs.stat and every pending write is settled in the end
SpecNamingFair ==
  /\ InitNamingFair
  /\ [][NextNaming]_allVars
  /\ \A p \in 1..MaxFairCalls : WF_allVars(NmStep(p))

\* ------------------------------------------------------------------ claims

\* the directory resolveOutputDir gives for the call's argument: the parent
\* when the argument names a file
ResolvedDir ==
  IF StatKind(outputDir.abs, files, dirs) = "file"
  THEN dirname(outputDir.abs)
  ELSE outputDir.abs

\* C1: for a non-empty list the returned results hold one entry per submitted
\* item, and entry i carries the path of item i, whatever order the jobs
\* settled in.
C1_ResultsInInputOrder ==
  (callPc = "returned" /\ Len(items) > 0) =>
    /\ Len(ret.results) = Len(items)
    /\ \A i \in 1..Len(items) : ret.results[i].inputPath = items[i].path

\* two different items whose jobs settled in the reverse of the list's order
C1_Witness ==
  /\ callPc = "returned"
  /\ Len(items) = 2
  /\ items[1].path # items[2].path
  /\ order = <<2, 1>>

\* C2: the success flag of every returned value is true exactly when every
\* entry of its results is a success, on the early returns too.
C2_SuccessIsConjunction ==
  callPc = "returned" =>
    (ret.success <=> \A i \in 1..Len(ret.results) : ret.results[i].success)

\* a returned batch of one success and one failure
C2_Witness ==
  /\ callPc = "returned"
  /\ Len(ret.results) = 2
  /\ ret.results[1].success
  /\ ~ret.results[2].success

\* C3: once the output directory is resolved the call is never rejected, and
\* it returns for every item the outcome of that item's own job: a failure as
\* a result with success = false, a success with its file written.
C3_ItemFailureIsolated ==
  /\ jobs # <<>> => callPc # "rejected"
  /\ (callPc = "returned" /\ jobs # <<>>) =>
       \A i \in 1..Len(items) :
         /\ jobs[i].settled = "fulfilled"
         /\ ret.results[i] = jobs[i].value
         /\ ret.results[i].inputPath = items[i].path
         /\ ret.results[i].success => ret.results[i].outputPath \in files
         /\ ret.results[i].success \/ ret.results[i].error # ""

\* a batch whose first item failed in the codec and whose second item was
\* written
C3_Witness ==
  /\ callPc = "returned"
  /\ Len(ret.results) = 2
  /\ ret.results[1].error = "codec"
  /\ ret.results[2].success
  /\ ret.results[2].outputPath \in files

\* C4: a call with an empty list returns {success: true, results: []}, does
\* not call resolveOutputDir and leaves the file system as it was.
C4_EmptyListIsNoOp ==
  (Len(items) = 0 /\ callPc # "entry") =>
    /\ callPc = "returned"
    /\ ret = [rejected |-> FALSE, success |-> TRUE, results |-> <<>>]
    /\ events = {}
    /\ files = files0
    /\ dirs = dirs0

\* an empty list returned for an output directory that does not exist
C4_Witness ==
  /\ Len(items) = 0
  /\ callPc = "returned"
  /\ outputDir.abs = DirNew
  /\ DirNew \notin dirs

\* C5: when the output directory of a non-empty batch cannot be resolved the
\* call is rejected and no item was started: nothing but the resolution
\* happened, and a rejected call has no jobs.
C5_ResolveFailureAbortsBatch ==
  /\ ("resolve" \in events /\ (outputDir.blank \/ denied)) =>
       /\ callPc = "rejected"
       /\ ret.rejected
  /\ callPc = "rejected" =>
       /\ jobs = <<>>
       /\ events = {"resolve"}
       /\ files = files0

\* a non-empty batch rejected because the directory could not be created
C5_Witness ==
  /\ callPc = "rejected"
  /\ Len(items) > 0
  /\ denied
  /\ DirNew \notin dirs

\* C6: every item result with success = false has the empty outputPath, in
\* the value of every job and in every returned value.
C6_FailedItemHasNoOutputPath ==
  /\ \A i \in 1..Len(jobs) :
       (jobs[i].settled = "fulfilled" /\ ~jobs[i].value.success) =>
         jobs[i].value.outputPath = <<>>
  /\ callPc = "returned" =>
       \A i \in 1..Len(ret.results) :
         ~ret.results[i].success => ret.results[i].outputPath = <<>>

\* an item that failed after its output path was chosen
C6_Witness ==
  /\ callPc = "returned"
  /\ \E i \in 1..Len(jobs) :
       /\ jobs[i].out # <<>>
       /\ ~ret.results[i].success
       /\ ret.results[i].outputPath = <<>>

\* C7: within one batch no two items are given the same output path, and no
\* item is given a path that existed when the batch was called.
C7_BatchPathsDistinct ==
  \A i \in 1..Len(jobs) :
    jobs[i].out # <<>> =>
      /\ jobs[i].out \notin (files0 \cup dirs0)
      /\ \A j \in 1..Len(jobs) :
           (j # i /\ jobs[j].out # <<>>) => jobs[j].out # jobs[i].out

\* C8: a naming function never returns a path at which an entry exists when
\* its probe answers, and the paths returned to the same item by calls that
\* each wrote their path before the next began are pairwise distinct.
C8_NamingNeverReturnsTaken ==
  /\ \A i \in 1..Len(jobs) : jobs[i].out # <<>> => jobs[i].fresh
  /\ \A c \in 1..Len(hist) : \A i \in 1..Len(hist[c].results) :
       hist[c].results[i].success =>
         /\ (c < calls /\ i <= Len(jobs) /\ jobs[i].out # <<>>) =>
              jobs[i].out # hist[c].results[i].outputPath
         /\ \A b \in 1..(c - 1) :
              (i <= Len(hist[b].results) /\ hist[b].results[i].success) =>
                hist[b].results[i].outputPath # hist[c].results[i].outputPath

\* two calls in sequence, both written, where the probe of the second call
\* had to pass over the first call's file and over a folder of the next name
C8_Witness ==
  /\ Len(hist) = 2
  /\ Len(items) = 1
  /\ PreExisting(op).d \in dirs
  /\ \A c \in 1..2 : Len(hist[c].results) = 1
  /\ hist[1].results[1].success
  /\ hist[2].results[1].success
  /\ hist[2].results[1].outputPath =
       CandidatePath(op, ResolvedDir, items[1], 2)

\* C9 as stated, for a list of that one item: for an item without the
\* compress tag and an output directory without <base>_yasuo<ext>, the c-th
\* successful call in a row gives <base>_yasuo<ext> for c = 1 and
\* <base>_yasuo_<c-1><ext> after it.
C9_AsStated ==
  LET ext == extname(items[1].path)
      base == basename(items[1].path, ext)
      want(k) ==
        resolve(ResolvedDir,
                IF k = 0 THEN base \o <<"_", "ya", "suo">> \o ext
                ELSE base \o <<"_", "ya", "suo", "_">> \o NumToString(k)
                       \o ext)
  IN \A c \in 1..Len(hist) :
       ( /\ op = "compress"
         /\ Len(items) = 1
         /\ ~NamingMatch(op, items[1]).hit
         /\ want(0) \notin fsInit
         /\ \A b \in 1..c : /\ Len(hist[b].results) = 1
                            /\ hist[b].results[1].success )
       => hist[c].results[1].outputPath = want(c - 1)

\* C9 as amended: the output directory holds none of the names
\* <base>_yasuo<ext>, <base>_yasuo_1<ext>, ..., <base>_yasuo_<c-1><ext>
\* before the first call (the list holds that one item).
C9_RepeatedCompressNumbers ==
  LET ext == extname(items[1].path)
      base == basename(items[1].path, ext)
      want(k) ==
        resolve(ResolvedDir,
                IF k = 0 THEN base \o <<"_", "ya", "suo">> \o ext
                ELSE base \o <<"_", "ya", "suo", "_">> \o NumToString(k)
                       \o ext)
  IN \A c \in 1..Len(hist) :
       ( /\ op = "compress"
         /\ Len(items) = 1
         /\ ~NamingMatch(op, items[1]).hit
         /\ \A n \in 0..(c - 1) : want(n) \notin fsInit
         /\ \A b \in 1..c : /\ Len(hist[b].results) = 1
                            /\ hist[b].results[1].success )
       => hist[c].results[1].outputPath = want(c - 1)

\* a.jpg compressed twice into a directory that held neither candidate
C9_Witness ==
  /\ op = "compress"
  /\ Len(items) = 1
  /\ Len(hist) = 2
  /\ \A c \in 1..2 : Len(hist[c].results) = 1
  /\ hist[1].results[1].success
  /\ hist[2].results[1].success
  /\ hist[1].results[1].outputPath =
       resolve(DirO, <<"a">> \o TagCompress \o ExtJpg)
  /\ hist[2].results[1].outputPath =
       resolve(DirO, <<"a">> \o TagCompress \o <<"_", "1">> \o ExtJpg)

\* C10: deleteFile returns true exactly when every path of its list was
\* removed: it existed when the call was made and is gone when it returns.
C10_TrueIffEveryPathRemoved ==
  delPc = "returned" =>
    (delRet <=> \A i \in 1..Len(delPaths) :
                  /\ delPaths[i] \in delFs0
                  /\ delPaths[i] \notin (files \cup dirs))

\* C11: deleteFile runs the removal of every path of its list whatever
\* happens to the others: when it returns, every path's job has made its stat
\* and run to its end, a path that is still there is one whose own rm or
\* unlink was refused, and one failed path makes the call return false.
C11_EveryPathAttempted ==
  (delPc = "returned" /\ Len(delPaths) > 0) =>
    /\ Len(delJobs) = Len(delPaths)
    /\ \A i \in 1..Len(delPaths) :
         /\ delJobs[i].pc = "done"
         /\ Len(delJobs[i].steps) >= 1
         /\ delJobs[i].steps[1] = "stat"
         /\ delPaths[i] \in (files \cup dirs) =>
              (~delJobs[i].ok /\ Len(delJobs[i].steps) >= 2)
    /\ (\E i \in 1..Len(delPaths) : ~delJobs[i].ok) => ~delRet

\* the first path's unlink was refused and the file is still there, the
\* second path was removed, and the call returned false
C11_Witness ==
  /\ delPc = "returned"
  /\ delPaths = <<FileA, resolve(DirQ, NameA)>>
  /\ ~delJobs[1].ok
  /\ FileA \in files
  /\ delJobs[2].ok
  /\ resolve(DirQ, NameA) \notin files
  /\ ~delRet

\* C12: deleteFile with the empty list returns true and makes no file system
\* call: no job is started and the entries are the ones of the call.
C12_EmptyDeleteIsNoOp ==
  (delPc = "returned" /\ delPaths = <<>>) =>
    /\ delRet
    /\ delJobs = <<>>
    /\ files \cup dirs = delFs0

C12_Witness ==
  /\ delPc = "returned"
  /\ delPaths = <<>>
  /\ delRet

\* C13: when the target path renameFile computes equals the source path, the
\* call resolves to true, its only fs call is the stat of the source (no
\* access, no rename) and the file system is the one of the call.
C13_SameNameIsNoOp ==
  (renPc = "done" /\ renTarget = renFile.path) =>
    /\ renOut.kind = "resolved"
    /\ renOut.value
    /\ renEvents = {"stat"}
    /\ <<files, dirs>> = renFs0

\* the image /p/a.jpg is given the name "a": the extension is put back and
\* the target is the source
C13_Witness ==
  /\ renPc = "done"
  /\ renFile.path = FileA
  /\ renName = <<"a">>
  /\ renTarget = FileA
  /\ renOut.kind = "resolved"

\* C14: after a renameFile that resolved to true the entry is at a path whose
\* parent is dirname(filePath), and the file system is the one of the call
\* with the source (and what lies below it) at that path and every other entry
\* where it was.
C14_RenameStaysInDirectory ==
  (renPc = "done" /\ renOut.kind = "resolved" /\ renOut.value) =>
    /\ dirname(renTarget) = dirname(renFile.path)
    /\ Len(renTarget) = Len(renFile.path)
    /\ StatOk(renTarget, files, dirs)
    /\ files = { RenameEntry(f, renFile.path, renTarget) : f \in renFs0[1] }
    /\ dirs = { RenameEntry(d, renFile.path, renTarget) : d \in renFs0[2] }

\* the folder /q became /b and its file went with it
C14_Witness ==
  /\ renPc = "done"
  /\ renOut.kind = "resolved"
  /\ "rename" \in renEvents
  /\ renFile.path = DirQ
  /\ renTarget = << <<"b">> >>
  /\ resolve(<< <<"b">> >>, NameA) \in files
  /\ DirQ \notin dirs

\* C15: when the target differs from the source and an entry of that name is
\* in the directory (it was there when renameFile looked, no other actor put
\* it there afterwards), renameFile fails with the already-exists error, does not
\* call fs.rename, and the file system is the one of the call (no numbered
\* sibling appears).
C15_ExistingTargetFails ==
  (/\ renPc = "done"
   /\ renTarget # <<>>
   /\ renTarget # renFile.path
   /\ "target" \notin renRace.other
   /\ StatOk(renTarget, renFs0[1], renFs0[2])) =>
    /\ renOut.kind = "rejected"
    /\ renOut.error = "exists"
    /\ "rename" \notin renEvents
    /\ <<files, dirs>> = renFs0

\* /p/a.jpg is given the name of the file /p/a_TAG.jpg
C15_Witness ==
  /\ renPc = "done"
  /\ renFile.path = FileA
  /\ renTarget = resolve(DirP, <<"a">> \o TagCompress \o ExtJpg)
  /\ renTarget \in files
  /\ renOut.error = "exists"

C17_InvalidNamesRejected ==
  (/\ renPc = "done"
   /\ \/ Contains(trim(renName), "/")
      \/ Contains(trim(renName), "\\")
      \/ trim(renName) \in { <<".">>, <<".", ".">> }) =>
    /\ \/ renOut.kind = "invalid"
       \/ renOut.kind = "rejected" /\ renOut.error = "separator"
    /\ renEvents = {}
    /\ <<files, dirs>> = renFs0

\* the name "." for the image /p/a.jpg was turned down
C17_Witness ==
  /\ renPc = "done"
  /\ renFile.path = FileA
  /\ renName = <<".">>
  /\ renOut.kind = "invalid"
  /\ FileA \in files

\* the call p of resolveOutputDir made the step named step
RdDid(p, step) ==
  \E k \in 1..Len(rdProcs[p].steps) : rdProcs[p].steps[k] = step

\* C18: calls of resolveOutputDir with the same argument that run side by
\* side all succeed, whatever the order of their stat and mkdir steps: a call
\* whose mkdir the environment did not refuse returns the directory (the
\* argument, or its parent when the argument is a file), which exists, and no
\* call fails because another one created the directory first.
C18_ConcurrentResolveSucceeds ==
  ~rdArg.blank =>
    \A p \in DOMAIN rdProcs :
      (rdProcs[p].pc = "done" /\ ~rdProcs[p].denied) =>
        /\ rdProcs[p].ok
        /\ rdProcs[p].ret =
             (IF StatKind(rdArg.abs, rdProcs[p].fs0[1], rdProcs[p].fs0[2])
                   = "file"
              THEN dirname(rdArg.abs) ELSE rdArg.abs)
        /\ rdProcs[p].ret \in dirs

\* both calls found the nested path /n/s missing, both ran mkdir, both
\* returned it
C18_Witness ==
  /\ rdArg.abs = DirNew
  /\ dirname(DirNew) \notin rdProcs[1].fs0[2]
  /\ \A p \in 1..2 :
       /\ rdProcs[p].pc = "done"
       /\ rdProcs[p].ok
       /\ rdProcs[p].ret = DirNew
       /\ RdDid(p, "statParent")
       /\ RdDid(p, "mkdir")
  /\ DirNew \in dirs

\* C19: a call of resolveOutputDir made after a call with the same argument
\* succeeded returns the same path and makes no mkdir; with no other call
\* running, the file system at its end is the one at its start.
C19_ResolveIdempotent ==
  \A j \in DOMAIN rdProcs :
    \A i \in rdProcs[j].after :
      rdProcs[j].pc = "done" =>
        /\ rdProcs[j].ok
        /\ rdProcs[j].ret = rdProcs[i].ret
        /\ ~RdDid(j, "mkdir")
        /\ (\A q \in DOMAIN rdProcs \ {j} :
              q \in rdProcs[j].after \/ rdProcs[q].pc = "idle")
             => <<files, dirs>> = rdProcs[j].fs0

\* the first call created /n/s, the second one was made after it returned
C19_Witness ==
  /\ rdArg.abs = DirNew
  /\ rdProcs[2].after = {1}
  /\ rdProcs[2].pc = "done"
  /\ rdProcs[2].ret = DirNew
  /\ RdDid(1, "mkdir")
  /\ DirNew \notin rdProcs[1].fs0[2]
  /\ DirNew \in dirs

\* C20: addWatermarks with a non-empty list and a text of more than 10
\* characters after trimming returns success = false with one failed result
\* per submitted file, in the order of the list; the output directory is not
\* resolved or created, no job is started (no stat, probe or composite) and
\* the file system is the one of the call.
C20_LongTextFailsEveryItem ==
  (/\ op = "watermark"
   /\ Len(items) > 0
   /\ Len(trim(text)) > MaxTextLen
   /\ callPc # "entry") =>
    /\ callPc = "returned"
    /\ ~ret.rejected
    /\ ~ret.success
    /\ Len(ret.results) = Len(items)
    /\ \A i \in 1..Len(items) :
         /\ ~ret.results[i].success
         /\ ret.results[i].inputPath = items[i].path
         /\ ret.results[i].outputPath = <<>>
    /\ jobs = <<>>
    /\ events = {}
    /\ files = files0
    /\ dirs = dirs0

\* two files and a text of 11 characters, for an output directory that does
\* not exist and was not created
C20_Witness ==
  /\ op = "watermark"
  /\ callPc = "returned"
  /\ Len(items) = MaxItems
  /\ text = Xs(MaxTextLen + 1)
  /\ Len(ret.results) = MaxItems
  /\ outputDir.abs = DirNew
  /\ DirNew \notin dirs

\* C21: a crop form submitted with width <= 0 or height <= 0, or with a number
\* of selected files other than one, never invokes cropImage, and it ends in a
\* warning (or at the form's own rule), not in a result of cropImage.
C21_InvalidCropNeverInvoked ==
  (\/ cropValues.width <= 0
   \/ cropValues.height <= 0
   \/ Len(cropFiles) # 1) =>
    /\ "cropImage" \notin cropEvents
    /\ cropPc # "calling"
    /\ cropPc = "done" =>
         cropOut \in {"rule", "warning: one image", "warning: width and height"}

\* one file and a rectangle of width 0 and height 1 ended in the warning
C21_Witness ==
  /\ cropPc = "done"
  /\ Len(cropFiles) = 1
  /\ cropValues.width = 0
  /\ cropValues.height = 1
  /\ cropOut = "warning: width and height"

\* C22: every successful item of convertFiles has an output path directly in
\* the resolved output directory, with the extension of its target format
\* (.jpg, .png or .bmp) and a base name that ends in the convert tag or in the
\* convert tag and a number; the base name does not end in the compress tag,
\* so the path is none of the candidates of the compress naming for the same
\* input and directory.
C22_ConvertNaming ==
  (op = "convert" /\ callPc = "returned") =>
    \A i \in 1..Len(ret.results) :
      ret.results[i].success =>
        LET out == ret.results[i].outputPath
            base == basename(out, extname(out))
            fmt == items[i].fmt
        IN /\ dirname(out) = targetDir
           /\ fmt \in {"jpg", "png", "bmp"}
           /\ extname(out) =
                (IF fmt = "jpg" THEN <<".", "j", "p", "g">>
                 ELSE IF fmt = "png" THEN <<".", "p", "n", "g">>
                 ELSE <<".", "b", "m", "p">>)
           /\ MatchTag(base, <<"_", "zhuan", "huan">>).hit
           /\ ~MatchTag(base, <<"_", "ya", "suo">>).hit
           /\ \A n \in 0..(MaxCalls + 1) :
                out # CandidatePath("compress", targetDir, items[i], n)

\* /p/a_TAG.jpg converted to bmp became /o/a_TAG_1.bmp
C22_Witness ==
  /\ op = "convert"
  /\ callPc = "returned"
  /\ Len(items) = 1
  /\ items[1].path = resolve(DirP, <<"a">> \o TagConvert \o ExtJpg)
  /\ ret.results[1].success
  /\ ret.results[1].outputPath =
       resolve(DirO, <<"a", "_", "zhuan", "huan", "_", "1", ".", "b", "m", "p">>)
  /\ ret.results[1].outputPath \in files

\* C23: the first candidate of a naming call is <base>_TAG for a base without
\* the tag, <root>_TAG_1 for a base <root>_TAG, and <root>_TAG_<n+1> for a
\* base <root>_TAG_<n>; when it is free at the first probe it is the path
\* returned, and an input that carries the tag is never given <root>_TAG, also
\* when no entry of that name is in the directory.
C23_FirstCandidate ==
  \A p \in DOMAIN nmProcs :
    nmProcs[p].pc # "call" =>
      LET path == nmProcs[p].item.path
          tag == IF nmOp = "compress" THEN <<"_", "ya", "suo">>
                 ELSE IF nmOp = "convert" THEN <<"_", "zhuan", "huan">>
                 ELSE <<"_", "shui", "yin">>
          ext == IF nmOp = "convert" THEN <<".", "p", "n", "g">>
                 ELSE extname(path)
          base == basename(path, extname(path))
          k == TrailingDigits(base)
          stem == DropLast(base, k)
          tagged == EndsWith(base, tag)
          numbered == k > 0 /\ EndsWith(stem, tag \o <<"_">>)
          expected ==
            IF tagged THEN base \o <<"_", "1">>
            ELSE IF numbered
            THEN stem \o NumToString(
                   parseInt(SubSeq(base, Len(base) - k + 1, Len(base))) + 1)
            ELSE base \o tag
          root == IF tagged THEN DropLast(base, Len(tag))
                  ELSE DropLast(stem, Len(tag) + 1)
      IN /\ nmProcs[p].first = resolve(DirO, expected \o ext)
         /\ (nmProcs[p].pc \in {"write", "done"} /\ nmProcs[p].probes = 1)
              => nmProcs[p].out = nmProcs[p].first
         /\ (nmProcs[p].pc \in {"write", "done"} /\ (tagged \/ numbered))
              => nmProcs[p].out # resolve(DirO, root \o tag \o ext)

\* the input a_TAG_9.jpg was given a_TAG_10.jpg in a directory that holds
\* neither a_TAG.jpg nor a lower number
C23_Witness ==
  /\ nmOp = "compress"
  /\ nmProcs[1].pc = "done"
  /\ nmProcs[1].item.path =
       resolve(DirP, <<"a", "_", "ya", "suo", "_", "9">> \o ExtJpg)
  /\ nmProcs[1].out =
       resolve(DirO, <<"a", "_", "ya", "suo", "_", "1", "0">> \o ExtJpg)
  /\ Siblings("compress", DirO, nmProcs[1].item, files, dirs)
       = {nmProcs[1].out}

\* C24: a job whose first unlink failed with EACCES or EPERM runs, in this
\* order, the chmod of the parent directory, the chmod of the file and the
\* strip of the extended attributes, each whether or not the one before
\* failed, then one retry of unlink, and gives true exactly when the retry
\* succeeded; a job whose first unlink failed with another error runs nothing
\* more and gives false.
C24_RemediationLadder ==
  \A i \in 1..Len(delJobs) :
    LET st == delJobs[i].steps
    IN Len(st) >= 2 =>
         /\ (st[2] \in {"unlink EACCES", "unlink EPERM"}
               /\ delJobs[i].pc = "done") =>
              /\ Len(st) = 6
              /\ st[3] \in {"chmodParent", "chmodParent failed"}
              /\ st[4] \in {"chmodFile", "chmodFile failed"}
              /\ st[5] \in {"xattr", "xattr failed"}
              /\ st[6] \in {"retry", "retry failed"}
              /\ delJobs[i].ok <=> st[6] = "retry"
              /\ delJobs[i].ok => delPaths[i] \notin files
         /\ st[2] \in {"unlink EBUSY", "unlink ENOENT"} =>
              /\ Len(st) = 2
              /\ delJobs[i].pc = "done"
              /\ ~delJobs[i].ok

\* EPERM at the first unlink, all three steps failed, the retry removed the
\* file
C24_Witness ==
  /\ delPc = "returned"
  /\ delPaths = <<FileA>>
  /\ delJobs[1].steps = <<"stat", "unlink EPERM", "chmodParent failed",
                          "chmodFile failed", "xattr failed", "retry">>
  /\ delJobs[1].ok
  /\ FileA \notin files
  /\ delRet

\* C25: the name renameFile gives the entry is the trimmed new name followed
\* by the source's extension exactly when the source is a regular file, the
\* source's name has an extension and the new name has none; it is the trimmed
\* new name alone for a folder, for a source without extension and for a new
\* name that has an extension.
C25_ExtensionRule ==
  renTarget # <<>> =>
    LET src == renFile.path
        new == trim(renName)
        isFile == src \in renFs0[1]
        oldExt == extname(src)
        appended == isFile /\ oldExt # <<>> /\ extname(<<new>>) = <<>>
    IN /\ appended => renTarget = Append(dirname(src), new \o oldExt)
       /\ ~appended => renTarget = Append(dirname(src), new)

\* the image /p/a.jpg given the name "b" went to /p/b.jpg
C25_Witness ==
  /\ renPc = "done"
  /\ renFile.path = FileA
  /\ renName = <<"b">>
  /\ renOut.kind = "resolved"
  /\ renTarget = resolve(DirP, <<"b">> \o ExtJpg)
  /\ renTarget \in files
  /\ FileA \notin files

\* C30: fs.rename of renameFile never replaces an entry: when it moves the
\* source, nothing is at the target path.
C30_NeverReplaces == ~renRace.replaced

\* C26: a call of resolveOutputDir whose argument is a regular file returns
\* the parent directory of that file, not the file path, and makes no mkdir:
\* the directories are the ones of the call.
C26_FileArgumentGivesParent ==
  ~rdArg.blank =>
    \A p \in DOMAIN rdProcs :
      (/\ rdProcs[p].pc = "done"
       /\ rdArg.abs \in rdProcs[p].fs0[1]) =>
        /\ rdProcs[p].ok
        /\ rdProcs[p].ret = SubSeq(rdArg.abs, 1, Len(rdArg.abs) - 1)
        /\ rdProcs[p].ret # rdArg.abs
        /\ rdProcs[p].ret \in dirs
        /\ ~RdDid(p, "mkdir")
        /\ ~RdDid(p, "statParent")
        /\ dirs = rdProcs[p].fs0[2]
        /\ files = rdProcs[p].fs0[1]

\* the call given /p/a.jpg returned /p
C26_Witness ==
  /\ rdArg.abs = FileA
  /\ rdProcs[1].pc = "done"
  /\ rdProcs[1].ok
  /\ rdProcs[1].ret = DirP
  /\ rdProcs[1].steps = <<"call", "stat", "eStat", "realpath">>

\* C27: the probe of the naming function reserves nothing. Two calls for the
\* same input and the same directory that have both left their probe loop,
\* with no write by any call since they started, hold the same output path:
\* each of them is about to write it. While no call has written, no entry is
\* at that path.
C27_ProbeReservesNothing ==
  \A p \in DOMAIN nmProcs : \A q \in DOMAIN nmProcs :
    (/\ p # q
     /\ nmProcs[p].item = nmProcs[q].item
     /\ nmProcs[p].pc = "write" /\ nmProcs[q].pc = "write"
     /\ ~nmProcs[p].raced /\ ~nmProcs[q].raced) =>
      /\ nmProcs[p].out = nmProcs[q].out
      /\ (\A r \in DOMAIN nmProcs : nmProcs[r].pc # "done") =>
           ~StatOk(nmProcs[p].out, files, dirs)

\* two compressions of /p/a.jpg into /o, where a_TAG.jpg is taken: both calls
\* chose /o/a_TAG_1.jpg and neither has written it
C27_Witness ==
  /\ nmOp = "compress"
  /\ \A p \in 1..2 :
       /\ nmProcs[p].item.path = FileA
       /\ nmProcs[p].pc = "write"
       /\ nmProcs[p].probes = 2
       /\ nmProcs[p].out =
            resolve(DirO, <<"a", "_", "ya", "suo", "_", "1">> \o ExtJpg)
  /\ resolve(DirO, <<"a", "_", "ya", "suo", "_", "1">> \o ExtJpg) \notin files

\* C28: every call of the naming function leaves its loop with a candidate,
\* and a call during which no other call wrote has made at most one probe
\* more than the directory held tagged siblings of its input when it started.
C28_ProbeLoopTerminates ==
  /\ \A p \in 1..MaxFairCalls :
       <>(nmProcs[p].pc \in {"write", "done"} /\ nmProcs[p].out # <<>>)
  /\ [](\A p \in 1..MaxFairCalls :
          ~nmProcs[p].raced => nmProcs[p].probes <= nmProcs[p].sib + 1)

\* with the candidates 0, 1 and 2 of "a" taken, the call for /p/a.jpg returned
\* the candidate 3 at its fourth probe
C28_Witness ==
  /\ nmOp = "watermark"
  /\ nmProcs[1].item.path = FileA
  /\ nmProcs[1].pc = "write"
  /\ ~nmProcs[1].raced
  /\ nmProcs[1].sib = 3
  /\ nmProcs[1].probes = 4
  /\ nmProcs[1].out =
       resolve(DirO, <<"a", "_", "shui", "yin", "_", "3">> \o ExtJpg)

\* C29: the output path a job of compressFiles, convertFiles or addWatermarks
\* has chosen, and then writes, is the path of no item of the same call, also
\* when the output directory is the directory of the inputs and an input
\* carries the operation's tag.
C29_OutputIsNoInput ==
  \A i \in 1..Len(jobs) :
    jobs[i].out # <<>> =>
      /\ \A k \in 1..Len(items) : jobs[i].out # items[k].path
      /\ (jobs[i].pc = "done" /\ jobs[i].value.success) =>
           \A k \in 1..Len(items) :
             jobs[i].value.outputPath # items[k].path

\* /p/a.jpg and /p/a_TAG.jpg compressed into /p: the first went to
\* /p/a_TAG_1.jpg, past the second input, and both inputs are still there
C29_Witness ==
  /\ callPc = "returned"
  /\ op = "compress"
  /\ targetDir = DirP
  /\ Len(items) = 2
  /\ items[1].path = FileA
  /\ items[2].path = resolve(DirP, <<"a">> \o TagCompress \o ExtJpg)
  /\ ret.results[1].success
  /\ ret.results[1].outputPath =
       resolve(DirP, <<"a">> \o TagCompress \o <<"_", "1">> \o ExtJpg)
  /\ ret.results[2].success
  /\ ret.results[2].outputPath =
       resolve(DirP, <<"a">> \o TagCompress \o <<"_", "2">> \o ExtJpg)

====
